---- MODULE Spec2Model ----
(***************************************************************************)
(* Moonlight Logs: the request handler of src/worker.ts (upload, download  *)
(* and delete of log files kept in a key-value store with per-key expiry). *)
(*                                                                         *)
(* Text is modelled as sequences: identifiers and file names as sequences  *)
(* of characters, header values as sequences of tokens (a media type and   *)
(* its parameters), file contents as sequences of bytes.  Time is in       *)
(* seconds.                                                                *)
(***************************************************************************)
EXTENDS Integers, Sequences, FiniteSets, TLC

VARIABLES kv, cache, now, used, inflight, req, resp

vars == <<kv, cache, now, used, inflight, req, resp>>

(***************************************************************************)
(* Bounds of the model and configuration of the worker.                    *)
(***************************************************************************)
\* env.MOONLIGHT_MAX_FILE_SIZE, in bytes (configuration)
MOONLIGHT_MAX_FILE_SIZE == 1
\* env.MOONLIGHT_EXPIRATION_TTL, in seconds (configuration)
MOONLIGHT_EXPIRATION_TTL == 60
\* seconds that pass in one step of the clock
TickSeconds == 30
\* cacheTtl passed to getWithMetadata
cacheTtl == 60
\* env.MOONLIGHT_ADMIN_TOKEN (configuration)
MOONLIGHT_ADMIN_TOKEN == <<"s3cret">>

\* null / undefined / an absent header, as a sequence no string equals
NULL == <<"null">>

(***************************************************************************)
(* Strings.                                                                *)
(***************************************************************************)
Rep(c, n) == [i \in 1..n |-> c]

\* String.prototype.endsWith
EndsWith(s, suffix) ==
    /\ Len(s) >= Len(suffix)
    /\ SubSeq(s, Len(s) - Len(suffix) + 1, Len(s)) = suffix

\* String.prototype.includes
Includes(s, sub) ==
    \E i \in 1..(Len(s) - Len(sub) + 1) : SubSeq(s, i, i + Len(sub) - 1) = sub

\* truthiness of a string or null: null and '' are falsy
Truthy(s) == s # NULL /\ Len(s) > 0

HexDigits == {"0", "1", "2", "3", "4", "5", "6", "7", "8", "9", "a", "b", "c", "d", "e", "f"}

\* uuid.match(UUID_REGEX)
UUID_REGEX(s) ==
    /\ Len(s) = 36
    /\ \A i \in 1..36 :
         IF i \in {9, 14, 19, 24} THEN s[i] = "-" ELSE s[i] \in HexDigits

DotTxt == <<".", "t", "x", "t">>
DotLog == <<".", "l", "o", "g">>
DotDmp == <<".", "d", "m", "p">>

validateFilenameNoDmp(filename) ==
    EndsWith(filename, DotTxt) \/ EndsWith(filename, DotLog) \/ EndsWith(filename, <<"d", "m", "p">>)

validateFilename(filename) ==
    EndsWith(filename, DotTxt) \/ EndsWith(filename, DotLog) \/ EndsWith(filename, DotDmp)

(***************************************************************************)
(* Values the requests are built from.                                     *)
(***************************************************************************)
MkUUID(c) == Rep(c, 8) \o <<"-">> \o Rep(c, 4) \o <<"-">> \o Rep("4", 4) \o <<"-">>
             \o Rep("a", 4) \o <<"-">> \o Rep(c, 12)

\* identifiers crypto.randomUUID() returns in this model; an upload draws one
\* that no record was stored under yet (a 128-bit random identifier does not
\* repeat), and a client can name an identifier only once an upload returned it
UUIDPool == {MkUUID("1")}
\* the identifiers two uploads running at the same time draw from
ConcurrentUUIDPool == UUIDPool \cup {MkUUID("2")}
\* a well-formed identifier that no upload ever returns
StrangerUUID == MkUUID("e")
\* identifiers that are not canonical UUIDs
MalformedIds == {
    Rep("1", 8) \o <<"-">> \o Rep("1", 4) \o <<"-">> \o Rep("4", 4) \o <<"-">>
        \o Rep("a", 4) \o <<"-">> \o Rep("1", 11) \o <<"F">>,
    Rep("1", 32) }

MaxLen == MOONLIGHT_MAX_FILE_SIZE + 1
\* request bodies: every length up to MaxLen, and a second content of length 1
Bodies == {Rep("h", n) : n \in 0..MaxLen} \cup {<<"i">>}

ALog == <<"a">> \o DotLog
ValidNames == {ALog, <<"b">> \o DotTxt, DotDmp}
InvalidNames == {
    <<"a", ".", "L", "O", "G">>,
    <<"a", ".", "t", "x">>,
    ALog \o <<".", "g", "z">>,
    <<"d", "m", "p">>,
    <<>> }
Names == ValidNames \cup InvalidNames

TextPlain == <<"text/plain">>
OctetStream == <<"application/octet-stream">>
FormData == <<"multipart/form-data">>
TextHtml == <<"text/html">>
ContentTypes == {
    NULL,
    <<>>,
    TextPlain,
    TextPlain \o <<"; charset=utf-8">>,
    OctetStream,
    <<"application/json">> }
MultipartContentType == FormData \o <<"; boundary=x">>

\* file.type of the multipart part
FileTypes == {<<>>, TextPlain, <<"application/x-dmp">>}

Accepts == {NULL, TextHtml \o <<",*/*">>, <<"*/*">>}

Authorizations == {
    NULL,
    <<"Bearer ">> \o MOONLIGHT_ADMIN_TOKEN,
    MOONLIGHT_ADMIN_TOKEN,
    <<"Bearer ">> \o <<"guess">> }

\* formData.get('file') when the form has no such part
NoFile == [absent |-> TRUE]
File(name, type, content) == [name |-> name, type |-> type, content |-> content]

Request(method, search, contentType, accept, authorization, body, file) ==
    [method |-> method, search |-> search, contentType |-> contentType, accept |-> accept,
     authorization |-> authorization, body |-> body, file |-> file]

NameSearch(n) == << <<"name", n>> >>
Upload1(search, contentType, body) == Request("POST", search, contentType, NULL, NULL, body, NoFile)
FormUpload(file) == Request("POST", <<>>, MultipartContentType, NULL, NULL, <<>>, file)

\* uploads of raw text: every body with and without a name, under a missing, a
\* supported and an unsupported content type
RawUploads ==
    {Upload1(s, ct, b) : s \in {<<>>, NameSearch(ALog), NameSearch(<<"a", ".", "L", "O", "G">>)},
                         ct \in {NULL, TextPlain, <<"application/json">>},
                         b \in Bodies}
      \cup {Upload1(NameSearch(n), TextPlain, <<"h">>) : n \in Names}
      \cup {Upload1(NameSearch(ALog), ct, <<"h">>) : ct \in ContentTypes}
      \cup {Upload1(s, TextPlain, <<"h">>) :
               s \in {<< <<"v", <<"1">> >> >>, << <<"v", <<"1">> >>, <<"name", ALog>> >>}}
      \cup {Upload1(s, OctetStream, b) : s \in {<<>>, NameSearch(ALog)}, b \in {<<"h">>, Rep("h", MaxLen)}}
FormUploads ==
    {FormUpload(NoFile)}
      \cup {FormUpload(File(ALog, t, <<"h">>)) : t \in FileTypes}
      \cup {FormUpload(File(n, <<>>, <<"h">>)) : n \in {<<>>, <<"a", ".", "t", "x">>}}
      \cup {FormUpload(File(ALog, <<>>, b)) : b \in {<<>>, Rep("h", MaxLen)}}
BrowserUploads ==
    {Request("POST", NameSearch(ALog), TextPlain, a, NULL, <<"h">>, NoFile) : a \in Accepts}
UploadRequests == RawUploads \cup FormUploads \cup BrowserUploads

\* query strings of downloads and deletes over the identifiers in ids
IdSearches(ids) ==
    {<<>>, << <<"id", <<>> >> >>}
      \cup {<< <<"id", i>> >> : i \in ids \cup {StrangerUUID} \cup MalformedIds}

DownloadRequests(ids) ==
    {Request("GET", s, NULL, NULL, NULL, <<>>, NoFile) : s \in IdSearches(ids)}
DeleteRequests(ids) ==
    {Request("DELETE", s, NULL, NULL, a, <<>>, NoFile) : s \in IdSearches(ids), a \in Authorizations}
OtherRequests ==
    {Request(m, <<>>, NULL, NULL, NULL, <<>>, NoFile) : m \in {"OPTIONS", "PUT"}}

\* url.searchParams.has(key)
Has(search, key) == \E i \in 1..Len(search) : search[i][1] = key
\* url.searchParams.get(key): the first value, or null
Get(search, key) ==
    IF Has(search, key)
    THEN search[CHOOSE i \in 1..Len(search) :
                    search[i][1] = key /\ \A j \in 1..(i - 1) : search[j][1] # key][2]
    ELSE NULL

(***************************************************************************)
(* Responses.                                                              *)
(***************************************************************************)
NoTime == 0
NoHeaders ==
    [allow |-> NULL, contentType |-> NULL, contentDisposition |-> NULL, location |-> NULL,
     lastModified |-> NoTime, expires |-> NoTime, allowOrigin |-> NULL]
CORS == [NoHeaders EXCEPT !.allowOrigin = <<"*">>]

Response(status, body, headers) == [status |-> status, body |-> body, headers |-> headers]

\* the handler threw and produced no response of its own
Thrown(error) == Response(0, <<error>>, NoHeaders)
NoResponse == Response(0, <<>>, NoHeaders)

\* the URL of every request: origin and pathname '/', then the query string
Origin == <<"https://logs.example">>
RECURSIVE QueryString(_)
QueryString(search) ==
    IF Len(search) = 0 THEN <<>>
    ELSE <<search[1][1], "=">> \o search[1][2]
         \o (IF Len(search) = 1 THEN <<>> ELSE <<"&">> \o QueryString(Tail(search)))
\* URL.prototype.toString
URLToString(search) ==
    Origin \o <<"/">> \o (IF Len(search) = 0 THEN <<>> ELSE <<"?">> \o QueryString(search))

\* redirectURL: the request's URL, search emptied, then 'id' set
RedirectURL(uuid) == URLToString(<< <<"id", uuid>> >>)

\* `attachment; filename="${name}"`
ContentDisposition(name) == <<"attachment; filename=\"">> \o name \o <<"\"">>

(***************************************************************************)
(* The key-value store (env.MOONLIGHT_LOGS) and the cache of its lookups.  *)
(***************************************************************************)
Keys == ConcurrentUUIDPool \cup {StrangerUUID}
NoRecord == [absent |-> TRUE]
NoEntry == [absent |-> TRUE]
NotFound == [found |-> FALSE]
Found(record) == [found |-> TRUE, value |-> record.value, metadata |-> record.metadata]

\* a store that never expires its keys
KVReadNoExpiry(key) == IF kv[key] # NoRecord THEN Found(kv[key]) ELSE NotFound

\* a key is readable until its expiration time
KVRead(key) ==
    IF kv[key] # NoRecord /\ now < kv[key].expiration THEN Found(kv[key]) ELSE NotFound

\* MOONLIGHT_LOGS.put(key, value, {expirationTtl, metadata})
KVPut(key, value, expirationTtl, metadata) ==
    [kv EXCEPT ![key] = [value |-> value, metadata |-> metadata, expiration |-> now + expirationTtl]]

\* a delete that empties the namespace
KVDeleteAll(key) == [k \in Keys |-> NoRecord]

\* MOONLIGHT_LOGS.delete(key)
KVDelete(key) == [kv EXCEPT ![key] = NoRecord]

\* a lookup of the key answered less than cacheTtl seconds ago is still cached;
\* a later lookup may be served that answer, whatever the store holds by then
Cached(key) == cache[key] # NoEntry /\ now - cache[key].at < cacheTtl

\* MOONLIGHT_LOGS.getWithMetadata(key, {cacheTtl: 60}): the cached answer when
\* the lookup is served from the cache, the store's answer otherwise
GetWithMetadata(key, hit) == IF hit THEN cache[key].result ELSE KVRead(key)

\* the invocations of fetch() that can be running an upload at the same time,
\* and the state of one that is not
Procs == {"p1", "p2"}
Idle == [idle |-> TRUE]
\* an upload between crypto.randomUUID() and the end of reading its body
Reading(r, uuid) == [idle |-> FALSE, request |-> r, uuid |-> uuid]
InFlight == {p \in Procs : inflight[p] # Idle}

Init ==
    /\ kv = [k \in Keys |-> NoRecord]
    /\ cache = [k \in Keys |-> NoEntry]
    /\ now = 1
    /\ used = {}
    /\ inflight = [p \in Procs |-> Idle]
    /\ req = Request("NONE", <<>>, NULL, NULL, NULL, <<>>, NoFile)
    /\ resp = NoResponse

(***************************************************************************)
(* Routing: the chain of conditions of fetch() on pathname '/'.            *)
(***************************************************************************)
Route(r) ==
    IF r.method = "OPTIONS" THEN "options"
    ELSE IF r.method = "GET" /\ ~Has(r.search, "id") THEN "home"
    ELSE IF r.method = "POST" THEN "upload"
    ELSE IF r.method = "GET" /\ Has(r.search, "id") THEN "download"
    ELSE IF r.method = "DELETE" /\ Truthy(Get(r.search, "id")) THEN "delete"
    ELSE "notallowed"

\* the handler answers without touching the store
Reply(r, response) ==
    /\ req' = r
    /\ resp' = response
    /\ UNCHANGED <<kv, cache, now, used, inflight>>

(***************************************************************************)
(* Upload route.                                                           *)
(***************************************************************************)
\* `!content`: an ArrayBuffer is an object, truthy whatever its byteLength
NotContent(content) == content = NULL

Supported(contentType) ==
    \/ Includes(contentType, TextPlain)
    \/ Includes(contentType, OctetStream)
    \/ Includes(contentType, FormData)

\* the branch on the content type: the type, content and name of the upload
Extract(r) ==
    IF Includes(r.contentType, TextPlain)
    THEN [type |-> TextPlain \o <<"; charset=UTF-8">>, content |-> r.body,
          name |-> IF Has(r.search, "name") THEN Get(r.search, "name") ELSE NULL]
    ELSE IF Includes(r.contentType, OctetStream)
    THEN [type |-> OctetStream, content |-> r.body,
          name |-> IF Has(r.search, "name") THEN Get(r.search, "name") ELSE NULL]
    ELSE [type |-> r.file.type, content |-> r.file.content,
          name |-> IF Truthy(r.file.name) THEN r.file.name ELSE NULL]

\* byteLength of the content against env.MOONLIGHT_MAX_FILE_SIZE
TooLargeInclusive(content) == Len(content) >= MOONLIGHT_MAX_FILE_SIZE

TooLarge(content) == Len(content) > MOONLIGHT_MAX_FILE_SIZE

\* `!name || !validateFilename(name)`
InvalidFileName(name) == ~Truthy(name) \/ ~validateFilename(name)

Metadata(name, type, content) ==
    [name |-> name, type |-> type, size |-> Len(content), lastModified |-> now, uploadedAt |-> now]

\* a response whose URL keeps the query of the request and adds the id to it
UploadResponseKeepsQuery(r, uuid) ==
    LET url == URLToString(r.search \o << <<"id", uuid>> >>) IN
    IF Truthy(r.accept) /\ Includes(r.accept, TextHtml)
    THEN Response(200,
                  <<"<h1>Log successfully uploaded!</h1>", "<a href=\"">> \o url
                      \o <<"\">">> \o url \o <<"</a>">>,
                  [NoHeaders EXCEPT !.contentType = <<"text/html;charset=UTF-8">>])
    ELSE Response(201, url,
                  [CORS EXCEPT !.location = url,
                               !.expires = now + MOONLIGHT_EXPIRATION_TTL])

\* the response to a stored upload: a page for browsers, 201 Created otherwise
UploadResponse(r, uuid) ==
    IF Truthy(r.accept) /\ Includes(r.accept, TextHtml)
    THEN Response(200,
                  <<"<h1>Log successfully uploaded!</h1>", "<a href=\"">> \o RedirectURL(uuid)
                      \o <<"\">">> \o RedirectURL(uuid) \o <<"</a>">>,
                  [NoHeaders EXCEPT !.contentType = <<"text/html;charset=UTF-8">>])
    ELSE Response(201, RedirectURL(uuid),
                  [CORS EXCEPT !.location = RedirectURL(uuid),
                               !.expires = now + MOONLIGHT_EXPIRATION_TTL])

\* the checks of the upload route, in the order of the code; "" when all pass
UploadRejection(r) ==
    IF ~Truthy(r.contentType) THEN Response(400, <<"Missing Content-Type">>, CORS)
    ELSE IF ~Supported(r.contentType) THEN Response(415, <<"Unsupported Media Type">>, CORS)
    ELSE IF ~Includes(r.contentType, TextPlain) /\ ~Includes(r.contentType, OctetStream)
            /\ r.file = NoFile
    THEN Thrown("TypeError")
    ELSE IF NotContent(Extract(r).content) THEN Response(400, <<"Invalid Contents">>, CORS)
    ELSE IF TooLarge(Extract(r).content) THEN Response(413, <<"Payload Too Large">>, CORS)
    ELSE IF InvalidFileName(Extract(r).name) THEN Response(400, <<"Invalid File Name">>, CORS)
    ELSE NoResponse

\* the upload route with the file name checked after the put
UploadChecksNameLast(r, fault) ==
    /\ Route(r) = "upload"
    /\ IF UploadRejection(r) # NoResponse /\ UploadRejection(r).body # <<"Invalid File Name">>
       THEN Reply(r, UploadRejection(r))
       ELSE IF fault
       THEN Reply(r, Response(500, <<"Internal Server Error">>, CORS))
       ELSE \E uuid \in UUIDPool \ used :
              /\ kv' = KVPut(uuid, Extract(r).content, MOONLIGHT_EXPIRATION_TTL,
                             Metadata(Extract(r).name, Extract(r).type, Extract(r).content))
              /\ used' = used \cup {uuid}
              /\ req' = r
              /\ resp' = IF UploadRejection(r) # NoResponse THEN UploadRejection(r)
                         ELSE UploadResponse(r, uuid)
              /\ UNCHANGED <<cache, now, inflight>>

\* POST /: fault is whether MOONLIGHT_LOGS.put throws
Upload(r, fault) ==
    /\ Route(r) = "upload"
    /\ IF UploadRejection(r) # NoResponse
       THEN Reply(r, UploadRejection(r))
       ELSE IF fault
       THEN Reply(r, Response(500, <<"Internal Server Error">>, CORS))
       ELSE \E uuid \in UUIDPool \ used :
              /\ kv' = KVPut(uuid, Extract(r).content, MOONLIGHT_EXPIRATION_TTL,
                             Metadata(Extract(r).name, Extract(r).type, Extract(r).content))
              /\ used' = used \cup {uuid}
              /\ req' = r
              /\ resp' = UploadResponse(r, uuid)
              /\ UNCHANGED <<cache, now, inflight>>

(***************************************************************************)
(* The upload route as two steps, for invocations that run at the same     *)
(* time: up to the await of the body, and from there to the response.      *)
(***************************************************************************)
\* a generator that may return an identifier again
RepeatableUUIDs == ConcurrentUUIDPool

\* crypto.randomUUID(): an identifier that no record was stored under and that
\* no upload in flight holds
FreshUUIDs == ConcurrentUUIDPool \ (used \cup {inflight[p].uuid : p \in InFlight})

\* POST /: the content type is looked at, the uuid drawn, the body awaited
StartUpload(p, r) ==
    /\ Route(r) = "upload"
    /\ inflight[p] = Idle
    /\ IF ~Truthy(r.contentType) \/ ~Supported(r.contentType)
       THEN Reply(r, UploadRejection(r))
       ELSE /\ \E uuid \in FreshUUIDs : inflight' = [inflight EXCEPT ![p] = Reading(r, uuid)]
            /\ UNCHANGED <<kv, cache, now, used, req, resp>>

\* the body is read: the checks, the put and the response
FinishUpload(p, fault) ==
    /\ inflight[p] # Idle
    /\ LET r == inflight[p].request
           uuid == inflight[p].uuid
       IN  /\ inflight' = [inflight EXCEPT ![p] = Idle]
           /\ req' = r
           /\ IF UploadRejection(r) # NoResponse
              THEN /\ resp' = UploadRejection(r)
                   /\ UNCHANGED <<kv, cache, now, used>>
              ELSE IF fault
              THEN /\ resp' = Response(500, <<"Internal Server Error">>, CORS)
                   /\ UNCHANGED <<kv, cache, now, used>>
              ELSE /\ kv' = KVPut(uuid, Extract(r).content, MOONLIGHT_EXPIRATION_TTL,
                                  Metadata(Extract(r).name, Extract(r).type, Extract(r).content))
                   /\ used' = used \cup {uuid}
                   /\ resp' = UploadResponse(r, uuid)
                   /\ UNCHANGED <<cache, now>>

(***************************************************************************)
(* Download route.                                                         *)
(***************************************************************************)
\* headers that annotate a stored type of exactly text/plain with the charset
DownloadHeadersCharset(uuid, metadata) ==
    [CORS EXCEPT
       !.contentType = IF Truthy(metadata.type) /\ metadata.type # TextPlain THEN metadata.type
                       ELSE TextPlain \o <<"; charset=UTF-8">>,
       !.contentDisposition = IF Truthy(metadata.name) THEN ContentDisposition(metadata.name)
                              ELSE ContentDisposition(uuid \o DotTxt),
       !.lastModified = metadata.lastModified]

\* headers without the Content-Disposition
DownloadHeadersInline(uuid, metadata) ==
    [CORS EXCEPT
       !.contentType = IF Truthy(metadata.type) THEN metadata.type
                       ELSE TextPlain \o <<"; charset=UTF-8">>,
       !.lastModified = metadata.lastModified]

DownloadHeaders(uuid, metadata) ==
    [CORS EXCEPT
       !.contentType = IF Truthy(metadata.type) THEN metadata.type
                       ELSE TextPlain \o <<"; charset=UTF-8">>,
       !.contentDisposition = IF Truthy(metadata.name) THEN ContentDisposition(metadata.name)
                              ELSE ContentDisposition(uuid \o DotTxt),
       !.lastModified = metadata.lastModified]

\* a download that answers the stored bytes without the last one
DownloadResponseTruncated(uuid, result) ==
    IF ~result.found THEN Response(404, <<"File not found">>, CORS)
    ELSE Response(200, SubSeq(result.value, 1, Len(result.value) - 1),
                  DownloadHeaders(uuid, result.metadata))

DownloadResponse(uuid, result) ==
    IF ~result.found THEN Response(404, <<"File not found">>, CORS)
    ELSE Response(200, result.value, DownloadHeaders(uuid, result.metadata))

\* GET /?id=: hit is whether the lookup is served from the cache, fault is
\* whether getWithMetadata throws
Download(r, hit, fault) ==
    /\ Route(r) = "download"
    /\ LET uuid == Get(r.search, "id") IN
       IF ~Truthy(uuid) THEN Reply(r, Response(400, <<"Missing UUID">>, CORS))
       ELSE IF ~UUID_REGEX(uuid) THEN Reply(r, Response(400, <<"Invalid UUID">>, CORS))
       ELSE IF fault THEN Reply(r, Thrown("KVError"))
       ELSE /\ hit => Cached(uuid)
            /\ req' = r
            /\ resp' = DownloadResponse(uuid, GetWithMetadata(uuid, hit))
            /\ cache' = IF hit THEN cache
                        ELSE [cache EXCEPT ![uuid] = [result |-> KVRead(uuid), at |-> now]]
            /\ UNCHANGED <<kv, now, used, inflight>>

(***************************************************************************)
(* Delete route.                                                           *)
(***************************************************************************)
AuthorizedAnyBearer(authorization) ==
    authorization # NULL /\ Len(authorization) > 0 /\ authorization[1] = "Bearer "

\* request.headers.get('Authorization') === 'Bearer ' + env.MOONLIGHT_ADMIN_TOKEN
Authorized(authorization) == authorization = <<"Bearer ">> \o MOONLIGHT_ADMIN_TOKEN

\* the delete route answering 404 for a key that holds no record
DeleteStoreIfPresent(r, uuid) ==
    IF KVRead(uuid).found
    THEN /\ kv' = KVDelete(uuid)
         /\ req' = r
         /\ resp' = Response(204, <<>>, CORS)
         /\ UNCHANGED <<cache, now, used, inflight>>
    ELSE Reply(r, Response(404, <<"File not found">>, CORS))

\* the store call of the delete route and its 204
DeleteStore(r, uuid) ==
    /\ kv' = KVDelete(uuid)
    /\ req' = r
    /\ resp' = Response(204, <<>>, CORS)
    /\ UNCHANGED <<cache, now, used, inflight>>

\* DELETE /?id=: fault is whether MOONLIGHT_LOGS.delete throws
Delete(r, fault) ==
    /\ Route(r) = "delete"
    /\ LET uuid == Get(r.search, "id") IN
       IF ~Truthy(uuid) THEN Reply(r, Response(400, <<"Missing UUID">>, CORS))
       ELSE IF ~UUID_REGEX(uuid) THEN Reply(r, Response(400, <<"Invalid UUID">>, CORS))
       ELSE IF ~Authorized(r.authorization) THEN Reply(r, Response(403, <<"Forbidden">>, CORS))
       ELSE IF fault THEN Reply(r, Response(500, <<"Internal Server Error">>, CORS))
       ELSE DeleteStore(r, uuid)

(***************************************************************************)
(* The other routes on '/': preflight, home page, 405.                     *)
(***************************************************************************)
Other(r) ==
    /\ Route(r) \in {"options", "home", "notallowed"}
    /\ Reply(r, CASE Route(r) = "options" ->
                       Response(204, <<>>, [CORS EXCEPT !.allow = <<"GET, POST, DELETE, OPTIONS">>])
                  [] Route(r) = "home" ->
                       Response(200, <<"<h1>Moonlight Logs</h1>">>,
                                [NoHeaders EXCEPT !.contentType = <<"text/html;charset=UTF-8">>])
                  [] OTHER ->
                       Response(405, <<"Method Not Allowed">>,
                                [CORS EXCEPT !.allow = <<"GET, POST, DELETE, OPTIONS">>]))

\* time passes
MaxTicks == 2
Tick ==
    /\ now + TickSeconds <= 1 + MaxTicks * TickSeconds
    /\ now' = now + TickSeconds
    /\ UNCHANGED <<kv, cache, used, inflight, req, resp>>

\* the uploads of the full service: one of each kind, one of them rejected
ServiceUploads ==
    {Upload1(NameSearch(ALog), TextPlain, b) : b \in {<<"h">>, <<"i">>}}
      \cup {Upload1(NameSearch(<<"b">> \o DotTxt), OctetStream, <<"h">>),
            Upload1(<<>>, TextPlain, <<"h">>)}
      \cup {FormUpload(File(ALog, t, <<"h">>)) : t \in FileTypes}

Requests == ServiceUploads \cup DownloadRequests(used) \cup DeleteRequests(used) \cup OtherRequests

\* the service over a store that answers every call
Next ==
    \/ \E r \in ServiceUploads : Upload(r, FALSE)
    \/ \E r \in DownloadRequests(used), hit \in BOOLEAN : Download(r, hit, FALSE)
    \/ \E r \in DeleteRequests(used) : Delete(r, FALSE)
    \/ \E r \in Requests : Other(r)
    \/ Tick

Spec == Init /\ [][Next]_vars

\* every upload request, over a store whose put may fail
NextUpload ==
    \/ \E r \in UploadRequests, fault \in BOOLEAN : Upload(r, fault)
    \/ Tick

SpecUpload == Init /\ [][NextUpload]_vars

\* the service over a store that may fail any call
NextFault ==
    \/ \E r \in ServiceUploads, fault \in BOOLEAN : Upload(r, fault)
    \/ \E r \in DownloadRequests(used), hit \in BOOLEAN, fault \in BOOLEAN : Download(r, hit, fault)
    \/ \E r \in DeleteRequests(used), fault \in BOOLEAN : Delete(r, fault)
    \/ \E r \in Requests : Other(r)
    \/ Tick

SpecFault == Init /\ [][NextFault]_vars

\* the requests of the invocations that interleave: uploads of two contents
\* and one without content type, downloads of the identifiers returned so
\* far, authorized deletes of those and of one never returned
ConcurrentUploads ==
    {Upload1(NameSearch(ALog), TextPlain, b) : b \in {<<"h">>, <<"i">>}}
      \cup {Upload1(NameSearch(ALog), NULL, <<"h">>)}
ConcurrentDownloads ==
    {Request("GET", << <<"id", i>> >>, NULL, NULL, NULL, <<>>, NoFile) : i \in used}
ConcurrentDeletes ==
    {Request("DELETE", << <<"id", i>> >>, NULL, NULL, <<"Bearer ">> \o MOONLIGHT_ADMIN_TOKEN, <<>>, NoFile) :
        i \in used \cup {StrangerUUID}}

\* uploads in two steps that interleave with each other and with downloads
\* and deletes, which make one store call each
NextConcurrent ==
    \/ \E p \in Procs, r \in ConcurrentUploads : StartUpload(p, r)
    \/ \E p \in Procs, fault \in BOOLEAN : FinishUpload(p, fault)
    \/ \E r \in ConcurrentDownloads, hit \in BOOLEAN : Download(r, hit, FALSE)
    \/ \E r \in ConcurrentDeletes : Delete(r, FALSE)
    \/ Tick

SpecConcurrent == Init /\ [][NextConcurrent]_vars

(***************************************************************************)
(* What a client sends and gets, read off the requests and responses.      *)
(***************************************************************************)
IsUpload(r) == r.method = "POST"
IsDownload(r) == r.method = "GET" /\ Has(r.search, "id")
IsDelete(r) == r.method = "DELETE"
Succeeded(response) == response.status \in {200, 201}

\* the content type is present and one of the three supported ones
SupportedUpload(r) ==
    /\ r.contentType # NULL
    /\ \E t \in {TextPlain, OctetStream, FormData} : \E i \in 1..Len(r.contentType) : r.contentType[i] = t[1]
IsMultipart(r) == \E i \in 1..Len(r.contentType) : r.contentType[i] = FormData[1]
\* the request carries content: a body, or the `file` part of the form
CarriesContent(r) == SupportedUpload(r) /\ (IsMultipart(r) => r.file # NoFile)
SentContent(r) == IF IsMultipart(r) THEN r.file.content ELSE r.body
\* the name the request declares, <<>> when it declares none
DeclaredName(r) ==
    IF IsMultipart(r) THEN r.file.name
    ELSE IF \E i \in 1..Len(r.search) : r.search[i][1] = "name"
         THEN r.search[CHOOSE i \in 1..Len(r.search) : r.search[i][1] = "name"][2]
         ELSE <<>>

\* the share URL of a successful upload and the identifier in it
ShareURL(response) ==
    IF response.status = 201 THEN response.headers.location
    ELSE SubSeq(response.body, 3, 2 + Len(RedirectURL(StrangerUUID)))
IdOfURL(url) == SubSeq(url, Len(url) - 35, Len(url))
\* the `id` a download or delete names, <<>> when it names none
RequestedId(r) == IF Has(r.search, "id") THEN Get(r.search, "id") ELSE <<>>

CanonicalUUID(s) ==
    /\ Len(s) = 36
    /\ \A i \in 1..36 : IF i \in {9, 14, 19, 24} THEN s[i] = "-" ELSE s[i] \in HexDigits

StoredKeys == {k \in Keys : kv[k] # NoRecord}

(***************************************************************************)
(* C1: a successful upload returns a share URL whose identifier has the    *)
(* canonical UUID shape and under which the uploaded bytes are stored, and *)
(* a download of an uploaded identifier that is neither deleted nor        *)
(* expired answers 200 with exactly those bytes.                           *)
(***************************************************************************)
C1_RoundTrip ==
    /\ (IsUpload(req) /\ Succeeded(resp)) =>
          /\ CanonicalUUID(IdOfURL(ShareURL(resp)))
          /\ IdOfURL(ShareURL(resp)) \in StoredKeys
          /\ kv[IdOfURL(ShareURL(resp))].value = SentContent(req)
    /\ (IsDownload(req) /\ RequestedId(req) \in StoredKeys
          /\ now < kv[RequestedId(req)].expiration) =>
          /\ resp.status = 200
          /\ resp.body = kv[RequestedId(req)].value

C1_Witness ==
    /\ IsDownload(req)
    /\ RequestedId(req) \in StoredKeys
    /\ resp.status = 200
    /\ resp.body = <<"i">>

(***************************************************************************)
(* C2: every record in the store has a name that ends with .txt, .log or   *)
(* .dmp, whatever names the upload requests declared or omitted.           *)
(***************************************************************************)
C2_StoredNamesValid ==
    \A k \in StoredKeys :
        LET name == kv[k].metadata.name IN
        /\ Len(name) >= 4
        /\ SubSeq(name, Len(name) - 3, Len(name)) \in
              {<<".", "t", "x", "t">>, <<".", "l", "o", "g">>, <<".", "d", "m", "p">>}

C2_Witness ==
    /\ IsUpload(req) /\ Succeeded(resp)
    /\ \E k \in StoredKeys : kv[k].metadata.name = <<".", "d", "m", "p">>

(***************************************************************************)
(* C3: an upload that is answered with success has added exactly one       *)
(* record to the store and changed no other; an upload answered 400, 413,  *)
(* 415 or 500 leaves the store as it was.                                  *)
(***************************************************************************)
C3_UploadEffect ==
    [][(IsUpload(req') /\ now' = now) =>
          /\ Succeeded(resp') =>
                \E k \in Keys : /\ kv[k] = NoRecord
                                /\ kv'[k] # NoRecord
                                /\ \A j \in Keys \ {k} : kv'[j] = kv[j]
          /\ resp'.status \in {400, 413, 415, 500} => kv' = kv]_vars

C3_Witness ==
    /\ IsUpload(req)
    /\ resp.status = 500
    /\ StoredKeys # {}

(***************************************************************************)
(* C4: an upload with a supported content type whose content is longer     *)
(* than MOONLIGHT_MAX_FILE_SIZE is answered 413 Payload Too Large and      *)
(* stores nothing; content of exactly that length is not answered 413.     *)
(***************************************************************************)
C4_PayloadTooLarge ==
    [][(IsUpload(req') /\ now' = now /\ CarriesContent(req')) =>
          /\ Len(SentContent(req')) > MOONLIGHT_MAX_FILE_SIZE =>
                /\ resp'.status = 413
                /\ resp'.body = <<"Payload Too Large">>
                /\ kv' = kv
          /\ Len(SentContent(req')) = MOONLIGHT_MAX_FILE_SIZE => resp'.status # 413]_vars

C4_Witness ==
    /\ IsUpload(req) /\ CarriesContent(req)
    /\ Len(SentContent(req)) > MOONLIGHT_MAX_FILE_SIZE
    /\ resp.status = 413
    /\ \E k \in StoredKeys : Len(kv[k].value) = MOONLIGHT_MAX_FILE_SIZE

(***************************************************************************)
(* C5: a DELETE of a well-formed identifier whose Authorization header is  *)
(* absent or is not `Bearer <administration token>` is answered 403 and    *)
(* changes neither the store nor the cached lookups, so the record reads   *)
(* as before.                                                              *)
(***************************************************************************)
C5_DeleteForbidden ==
    [][(IsDelete(req') /\ now' = now /\ CanonicalUUID(RequestedId(req'))
          /\ req'.authorization # <<"Bearer ", "s3cret">>) =>
          /\ resp'.status = 403
          /\ kv' = kv
          /\ cache' = cache]_vars

C5_Witness ==
    /\ IsDelete(req)
    /\ req.authorization = <<"Bearer ", "guess">>
    /\ resp.status = 403
    /\ RequestedId(req) \in StoredKeys

(***************************************************************************)
(* C6: a download of an uploaded identifier issued after its DELETE was    *)
(* answered 204, or once the TTL has elapsed since its upload, is answered *)
(* 404.  C6_AlwaysNotFound states this of every such download, also of one *)
(* served from the cache of lookups; C6_NotFoundUnlessCached allows such a *)
(* download, while a lookup of the identifier answered less than cacheTtl  *)
(* seconds ago is cached, to be answered 200 with the bytes of that        *)
(* cached lookup.                                                          *)
(***************************************************************************)
DownloadAfterEnd ==
    /\ IsDownload(req') /\ now' = now
    /\ RequestedId(req') \in used
    /\ \/ kv[RequestedId(req')] = NoRecord
       \/ now >= kv[RequestedId(req')].metadata.uploadedAt + MOONLIGHT_EXPIRATION_TTL

C6_AlwaysNotFound == [][DownloadAfterEnd => resp'.status = 404]_vars

C6_NotFoundUnlessCached ==
    [][DownloadAfterEnd =>
          \/ resp'.status = 404
          \/ /\ cache[RequestedId(req')] # NoEntry
             /\ now - cache[RequestedId(req')].at < 60
             /\ cache[RequestedId(req')].result.found
             /\ resp'.status = 200
             /\ resp'.body = cache[RequestedId(req')].result.value]_vars

C6_Witness ==
    /\ IsDownload(req)
    /\ RequestedId(req) \in used
    /\ kv[RequestedId(req)] # NoRecord
    /\ now >= kv[RequestedId(req)].metadata.uploadedAt + MOONLIGHT_EXPIRATION_TTL
    /\ cache[RequestedId(req)].at = now
    /\ resp.status = 404

(***************************************************************************)
(* C7: a DELETE of a well-formed identifier with the administration token  *)
(* is answered 204 whether or not the identifier holds a record; it leaves *)
(* no record under the identifier, changes no other record, and repeated   *)
(* on an identifier without a record it leaves the store as it was.        *)
(***************************************************************************)
C7_DeleteIdempotent ==
    [][(IsDelete(req') /\ now' = now /\ CanonicalUUID(RequestedId(req'))
          /\ req'.authorization = <<"Bearer ", "s3cret">>) =>
          /\ resp'.status = 204
          /\ kv'[RequestedId(req')] = NoRecord
          /\ \A k \in Keys \ {RequestedId(req')} : kv'[k] = kv[k]
          /\ kv[RequestedId(req')] = NoRecord => kv' = kv]_vars

C7_Witness ==
    /\ IsDelete(req)
    /\ resp.status = 204
    /\ RequestedId(req) \in used
    /\ cache[RequestedId(req)] # NoEntry
    /\ ~cache[RequestedId(req)].result.found

(***************************************************************************)
(* C8: an upload with a supported content type whose content has length    *)
(* zero is answered 400 Invalid Contents and stores nothing.               *)
(***************************************************************************)
C8_EmptyContentRejected ==
    [][(IsUpload(req') /\ now' = now /\ CarriesContent(req') /\ Len(SentContent(req')) = 0) =>
          /\ resp'.status = 400
          /\ resp'.body = <<"Invalid Contents">>
          /\ kv' = kv]_vars

(***************************************************************************)
(* C9: an upload that declares no name and is otherwise valid (supported   *)
(* content type, content of 1 to MOONLIGHT_MAX_FILE_SIZE bytes, the put    *)
(* not failing) succeeds and is stored under the name <id>.txt, <id> being *)
(* the key of the record.                                                  *)
(***************************************************************************)
C9_DefaultName ==
    [][(IsUpload(req') /\ now' = now /\ CarriesContent(req') /\ DeclaredName(req') = <<>>
          /\ Len(SentContent(req')) \in 1..MOONLIGHT_MAX_FILE_SIZE /\ resp'.status # 500) =>
          /\ Succeeded(resp')
          /\ kv'[IdOfURL(ShareURL(resp'))].metadata.name
                = IdOfURL(ShareURL(resp')) \o <<".", "t", "x", "t">>]_vars

(***************************************************************************)
(* C10: a DELETE on / without an `id` (absent or empty) is answered 400    *)
(* Missing UUID and one whose `id` is not a canonical UUID is answered 400 *)
(* Invalid UUID, whatever its Authorization header, the store untouched.   *)
(***************************************************************************)
C10_DeleteIdChecks ==
    [][(IsDelete(req') /\ now' = now) =>
          /\ RequestedId(req') = <<>> =>
                resp'.status = 400 /\ resp'.body = <<"Missing UUID">> /\ kv' = kv
          /\ (RequestedId(req') # <<>> /\ ~CanonicalUUID(RequestedId(req'))) =>
                resp'.status = 400 /\ resp'.body = <<"Invalid UUID">> /\ kv' = kv]_vars

(***************************************************************************)
(* C11: a failure of the store call is answered 500 Internal Server Error  *)
(* by the upload, download and delete routes alike: every request gets a   *)
(* response of the handler, and a download only 200, 400, 404 or 500.      *)
(***************************************************************************)
C11_StoreFailuresCaught ==
    /\ (IsUpload(req) \/ IsDownload(req) \/ IsDelete(req)) => resp.status # 0
    /\ IsDownload(req) => resp.status \in {200, 400, 404, 500}

\* the metadata of the record a download of the id was last answered from:
\* the store's record while it holds one, the cached lookup's otherwise
ServedMetadata(id) ==
    IF kv[id] # NoRecord THEN kv[id].metadata ELSE cache[id].result.metadata
Downloaded == IsDownload(req) /\ resp.status = 200
TextPlainUTF8 == TextPlain \o <<"; charset=UTF-8">>

(***************************************************************************)
(* C12: a download of an existing record has Content-Type text/plain with  *)
(* the UTF-8 charset when the record has no stored type or its stored type *)
(* is exactly text/plain, and the stored type verbatim otherwise.          *)
(***************************************************************************)
C12_CharsetForTextPlain ==
    Downloaded =>
       LET type == ServedMetadata(RequestedId(req)).type IN
       resp.headers.contentType =
          IF type = <<>> \/ type = TextPlain THEN TextPlainUTF8 ELSE type

\* C12 as the code has it: the stored type of a multipart upload is the type
\* of its file part; a download has Content-Type text/plain with the UTF-8
\* charset when the stored type is empty, and the stored type verbatim
\* otherwise, a stored type of exactly text/plain included.
C12_StoredTypeVerbatim ==
    /\ (IsUpload(req) /\ IsMultipart(req) /\ Succeeded(resp)) =>
          kv[IdOfURL(ShareURL(resp))].metadata.type = req.file.type
    /\ Downloaded =>
          LET type == ServedMetadata(RequestedId(req)).type IN
          resp.headers.contentType = IF type = <<>> THEN TextPlainUTF8 ELSE type

C12_Witness ==
    /\ Downloaded
    /\ ServedMetadata(RequestedId(req)).type = TextPlain
    /\ resp.headers.contentType = TextPlain

(***************************************************************************)
(* C13: every successful download carries the Content-Disposition          *)
(* attachment; filename="<n>", whatever else the request asks, where <n>   *)
(* is the name the record was uploaded with, or <id>.txt when no name is   *)
(* stored.                                                                 *)
(***************************************************************************)
C13_ContentDisposition ==
    /\ (IsUpload(req) /\ Succeeded(resp)) =>
          kv[IdOfURL(ShareURL(resp))].metadata.name = DeclaredName(req)
    /\ Downloaded =>
          LET id == RequestedId(req)
              name == ServedMetadata(id).name
              n == IF name # NULL /\ name # <<>> THEN name ELSE id \o <<".", "t", "x", "t">>
          IN  resp.headers.contentDisposition = <<"attachment; filename=\"">> \o n \o <<"\"">>

C13_Witness ==
    /\ Downloaded
    /\ ServedMetadata(RequestedId(req)).name = ALog
    /\ Includes(resp.headers.contentDisposition, ALog)

\* the Accept header asks for a page
AcceptsHtml(r) == r.accept # NULL /\ \E i \in 1..Len(r.accept) : r.accept[i] = "text/html"

(***************************************************************************)
(* C14: a successful upload whose Accept header does not contain text/html *)
(* answers 201 with a Location equal to the request's URL with its whole   *)
(* query replaced by the single parameter id=<key>, where <key> is the key *)
(* under which the record was stored: name, v and the other parameters of  *)
(* the request are not carried over.                                       *)
(***************************************************************************)
C14_Location ==
    (IsUpload(req) /\ Succeeded(resp) /\ ~AcceptsHtml(req)) =>
       /\ resp.status = 201
       /\ \E key \in StoredKeys :
             /\ resp.headers.location = <<"https://logs.example", "/", "?", "id", "=">> \o key
             /\ kv[key].value = SentContent(req)
             /\ kv[key].metadata.name = DeclaredName(req)
       /\ resp.headers.expires = kv[IdOfURL(resp.headers.location)].expiration

C14_Witness ==
    /\ IsUpload(req)
    /\ req.search = << <<"v", <<"1">> >>, <<"name", ALog>> >>
    /\ resp.status = 201
    /\ resp.headers.location = <<"https://logs.example", "/", "?", "id", "=">> \o MkUUID("1")
    /\ kv[MkUUID("1")].value = <<"h">>

\* the first check of the upload an upload request fails, in the documented
\* order; "none" when it passes them all or declares no name
FirstFailedCheck(r) ==
    IF r.contentType = NULL \/ r.contentType = <<>> THEN "Missing Content-Type"
    ELSE IF ~SupportedUpload(r) THEN "Unsupported Media Type"
    ELSE IF ~CarriesContent(r) \/ Len(SentContent(r)) = 0 THEN "Invalid Contents"
    ELSE IF Len(SentContent(r)) > MOONLIGHT_MAX_FILE_SIZE THEN "Payload Too Large"
    ELSE IF DeclaredName(r) # <<>> /\ ~validateFilename(DeclaredName(r)) THEN "Invalid File Name"
    ELSE "none"
StatusOfCheck(check) ==
    CASE check = "Missing Content-Type" -> 400
      [] check = "Unsupported Media Type" -> 415
      [] check = "Invalid Contents" -> 400
      [] check = "Payload Too Large" -> 413
      [] check = "Invalid File Name" -> 400

(***************************************************************************)
(* C15: the upload checks are applied in a fixed order and the response    *)
(* reports the first that fails: missing Content-Type (400), unsupported   *)
(* media type (415), empty content (400), content larger than              *)
(* MOONLIGHT_MAX_FILE_SIZE (413), invalid file name (400).                 *)
(***************************************************************************)
C15_CheckOrder ==
    (IsUpload(req) /\ FirstFailedCheck(req) # "none") =>
       /\ resp.status = StatusOfCheck(FirstFailedCheck(req))
       /\ resp.body = <<FirstFailedCheck(req)>>

\* the invocation whose upload this step answers, if the step is one
Finishing(p) == inflight[p] # Idle /\ inflight'[p] = Idle

(***************************************************************************)
(* C16: however uploads, downloads and deletes interleave, an upload never *)
(* writes under a key that holds a record, so the content and metadata     *)
(* under an identifier stay what its upload wrote until a delete of that   *)
(* identifier removes them; uploads running at the same time hold distinct *)
(* identifiers, each answers with its own and stores its own content       *)
(* there, and a stored, unexpired identifier downloads as its content.     *)
(***************************************************************************)
C16_UploadsNeverCollide ==
    [][/\ \A k \in Keys :
             (kv[k] # NoRecord /\ kv'[k] # kv[k]) =>
                 /\ kv'[k] = NoRecord
                 /\ IsDelete(req') /\ RequestedId(req') = k
       /\ \A p \in Procs :
             (Finishing(p) /\ Succeeded(resp')) =>
                 LET id == IdOfURL(ShareURL(resp')) IN
                 /\ id = inflight[p].uuid
                 /\ \A q \in InFlight \ {p} : inflight[q].uuid # id
                 /\ kv[id] = NoRecord
                 /\ kv'[id].value = SentContent(req')
                 /\ \A k \in Keys \ {id} : kv'[k] = kv[k]
       /\ (IsDownload(req') /\ kv'[RequestedId(req')] # NoRecord
             /\ now' < kv'[RequestedId(req')].expiration) =>
                 /\ resp'.status = 200
                 /\ resp'.body = kv'[RequestedId(req')].value]_vars

\* two uploads stored in the same instant under distinct identifiers with
\* distinct contents, one of them downloaded as its own content
C16_Witness ==
    /\ StoredKeys = ConcurrentUUIDPool
    /\ kv[MkUUID("1")].metadata.uploadedAt = kv[MkUUID("2")].metadata.uploadedAt
    /\ {kv[k].value : k \in StoredKeys} = {<<"h">>, <<"i">>}
    /\ Downloaded
    /\ resp.body = <<"i">>
    /\ kv[RequestedId(req)].value = <<"i">>

(***************************************************************************)
(* C17: a download, whatever it answers, leaves the whole store as it was; *)
(* a delete removes at most the record under the id of its request and     *)
(* leaves the content and metadata of every other record as they were.     *)
(***************************************************************************)
C17_FrameOfDownloadAndDelete ==
    [][/\ IsDownload(req') => kv' = kv
       /\ IsDelete(req') =>
             /\ \A k \in Keys \ {RequestedId(req')} : kv'[k] = kv[k]
             /\ \A k \in Keys : kv'[k] \in {kv[k], NoRecord}]_vars

C17_Witness ==
    /\ IsDelete(req)
    /\ resp.status = 204
    /\ RequestedId(req) \in ConcurrentUUIDPool
    /\ kv[RequestedId(req)] = NoRecord
    /\ StoredKeys # {}

====
